---- MODULE Spec2Model ----
(***************************************************************************)
(* A model of claude-hook-advisor's configuration lifecycle (config.rs),   *)
(* command-mapping matcher and hook process (hooks.rs).                    *)
(*                                                                         *)
(* Spec       the configuration store: the three files on disk, one        *)
(*            migrate_config() invocation at a time, stepped one file      *)
(*            system call at a time, and the query operations.             *)
(* SpecMatch  check_command_mappings() applied to bounded configurations   *)
(*            and commands.                                                *)
(* SpecHook   one hook process: run_as_hook() from its arguments, the      *)
(*            files it finds and the document on stdin to its exit.        *)
(* SpecHookFair  SpecHook, the process running to completion.              *)
(* SpecCache  get_cached_regex() called from two threads, one statement    *)
(*            per step.                                                    *)
(* SpecRace   two processes calling migrate_config() in one directory,     *)
(*            their file system calls interleaved.                         *)
(***************************************************************************)
EXTENDS Integers, Sequences, FiniteSets, TLC

VARIABLES
    fs,         \* the directory: path -> [exists, data]
    pc,         \* position of each migrate_config() invocation
    src,        \* content readable through the reader fs::copy holds open
    mret,       \* what the last migrate_config() invocation returned
    fs0,        \* history: the directory when the invocation was called
    steps,      \* history: the protocol steps that succeeded in this invocation
    everOk,     \* history: some invocation has returned Ok
    priorOk,    \* history: everOk at the time the invocation was called
    q,          \* the last query operation, its result and the directory it saw
    decl,       \* the [commands] table as declared in the configuration file
    config,     \* the loaded Config
    command,    \* the command handed to check_command_mappings
    iter,       \* the order in which this process's HashMap yields its entries
    result,     \* what check_command_mappings returned
    cache,      \* REGEX_CACHE: regex text -> compiled regex
    mphase,     \* position of the matcher run
    hpc,        \* position of the hook process in run_as_hook
    args,       \* the hook process's arguments: config_path, replace_mode
    stdin,      \* the document on the hook process's standard input
    hook_input, \* the parsed HookInput
    stdout,     \* what the hook process has printed with println!
    stderr,     \* what the hook process has printed with eprintln!
    status,     \* the hook process's exit status
    ran,        \* history: the handlers run_as_hook has called
    tpc,        \* position of each thread in get_cached_regex
    tpat,       \* the pattern text each thread asks for
    treg,       \* the local `regex` of each thread
    tret,       \* what each thread's last call returned
    lock,       \* the thread holding the REGEX_CACHE mutex, or 0
    calls,      \* history: the calls each thread has made
    compiled    \* history: the regexes Regex::new has returned, in order

vars == <<fs, pc, src, mret, fs0, steps, everOk, priorOk, q,
          decl, config, command, iter, result, cache, mphase,
          hpc, args, stdin, hook_input, stdout, stderr, status, ran,
          tpc, tpat, treg, tret, lock, calls, compiled>>

storeVars == <<fs, pc, src, mret, fs0, steps, everOk, priorOk, q>>
matchVars == <<decl, config, command, iter, result, cache, mphase>>
hookVars == <<hpc, args, stdin, hook_input, stdout, stderr, status, ran>>
threadVars == <<tpc, tpat, treg, tret, lock, calls, compiled>>

(***************************************************************************)
(* Bounds                                                                  *)
(***************************************************************************)
MaxFileLines == 2
MaxPatLen == 2
MaxReplLen == 2
MaxCmdLen == 4
MaxRules == 2
MaxCalls == 2

(***************************************************************************)
(* Files                                                                   *)
(***************************************************************************)
OLD_PATH == ".claude-hook-advisor.toml"
NEW_PATH == ".claude.toml"
BACKUP_SUFFIX == ".backup"
BACKUP_PATH == OLD_PATH \o BACKUP_SUFFIX
CONFIG_FILE_NAMES == <<NEW_PATH, OLD_PATH>>

Paths == {OLD_PATH, NEW_PATH, BACKUP_PATH}

\* A file is a sequence of lines.  RuleLine is `npm = "bun"` under [commands];
\* JunkLine is a line that is not TOML.  StartLine and OversizedLine are two
\* more rules, the second with a key too long for Regex::new.
RuleLine == "npm = \"bun\""
JunkLine == "= ="
StartLine == "\"npm start\" = \"bun dev\""
OversizedLine == "\"npm install\" = \"bun\""
Lines == {RuleLine, JunkLine}

SeqsUpTo(S, n) == UNION {[1..k -> S] : k \in 0..n}

Contents == SeqsUpTo(Lines, MaxFileLines)

NoFile == [exists |-> FALSE, data |-> <<>>]
FileOf(c) == [exists |-> TRUE, data |-> c]
Files == {NoFile} \cup {FileOf(c) : c \in Contents}

path_exists(p) == fs[p].exists

\* The strings of the matcher are sequences of one-character strings.
LineKey(l) ==
    IF l \in {RuleLine, StartLine, OversizedLine} THEN <<"n", "p", "m">>
         \o (IF l = StartLine THEN <<" ", "s", "t", "a", "r", "t">>
             ELSE IF l = OversizedLine THEN <<" ", "i", "n", "s", "t", "a", "l", "l">>
             ELSE <<>>)
    ELSE <<>>
LineVal(l) ==
    IF l \in {RuleLine, OversizedLine} THEN <<"b", "u", "n">>
    ELSE IF l = StartLine THEN <<"b", "u", "n", " ", "d", "e", "v">>
    ELSE <<>>

Ok(v) == [tag |-> "Ok", val |-> v, kind |-> ""]
Err(k, m) == [tag |-> "Err", val |-> m, kind |-> k]
NoRet == [tag |-> "None", val |-> "", kind |-> ""]

EmptyConfig == [commands |-> {}, semantic_directories |-> {}]

\* toml::from_str::<Config>: a line that is not TOML, or a key defined twice in
\* one table, is a parse error; a table that is missing is empty.
toml_from_str(content) ==
    IF \E i \in 1..Len(content) : content[i] = JunkLine
    THEN Err("ParseFailed", "invalid TOML")
    ELSE IF \E i, j \in 1..Len(content) :
                i < j /\ LineKey(content[i]) = LineKey(content[j])
    THEN Err("ParseFailed", "duplicate key")
    ELSE Ok([commands |-> {<<LineKey(content[i]), LineVal(content[i])>> :
                              i \in 1..Len(content)},
             semantic_directories |-> {}])

\* load_config_from_path: read_to_string (readable says whether the read
\* succeeds), then the parse.
load_config_from_path(p, readable) ==
    IF ~path_exists(p) \/ ~readable
    THEN Err("ReadFailed", p)
    ELSE toml_from_str(fs[p].data)

find_config_file_rev ==
    IF path_exists(OLD_PATH) THEN Ok(OLD_PATH)
    ELSE IF path_exists(NEW_PATH) THEN Ok(NEW_PATH)
    ELSE Err("NotFound", "No configuration file found")

\* find_config_file: the first name of CONFIG_FILE_NAMES that exists.
find_config_file ==
    IF \E i \in 1..Len(CONFIG_FILE_NAMES) : path_exists(CONFIG_FILE_NAMES[i])
    THEN Ok(CONFIG_FILE_NAMES[
            CHOOSE i \in 1..Len(CONFIG_FILE_NAMES) :
                /\ path_exists(CONFIG_FILE_NAMES[i])
                /\ \A j \in 1..(i - 1) : ~path_exists(CONFIG_FILE_NAMES[j])])
    ELSE Err("NotFound", "No configuration file found")

needs_migration_old_only ==
    IF path_exists(OLD_PATH) THEN Ok(OLD_PATH) ELSE NoRet

\* needs_migration: Some(old) is Ok(old), None is NoRet.
needs_migration ==
    IF path_exists(OLD_PATH) /\ ~path_exists(NEW_PATH)
    THEN Ok(OLD_PATH)
    ELSE NoRet

load_config_auto_strict(readable) ==
    LET found == find_config_file IN
    IF found.tag = "Ok"
    THEN [res |-> load_config_from_path(found.val, readable), diag |-> FALSE]
    ELSE [res |-> found, diag |-> FALSE]

\* load_config_auto: the result, and whether the diagnostic line was printed.
load_config_auto(readable) ==
    LET found == find_config_file IN
    IF found.tag = "Ok"
    THEN [res |-> load_config_from_path(found.val, readable), diag |-> FALSE]
    ELSE IF found.kind = "NotFound"
    THEN [res |-> Ok(EmptyConfig), diag |-> TRUE]
    ELSE [res |-> found, diag |-> FALSE]

(***************************************************************************)
(* migrate_config(), one file-system call per step                         *)
(***************************************************************************)
Procs == {1, 2}

NoQuery == [op |-> "none", res |-> NoRet, diag |-> FALSE, readable |-> TRUE,
            seen |-> [p \in Paths |-> NoFile]]

Quiescent == \A p \in Procs : pc[p] \in {"idle", "done"}

\* `return r` from migrate_config.
Return(p, r) ==
    /\ pc' = [pc EXCEPT ![p] = "done"]
    /\ mret' = [mret EXCEPT ![p] = r]
    /\ everOk' = (everOk \/ r.tag = "Ok")

Goto(p, label) ==
    /\ pc' = [pc EXCEPT ![p] = label]
    /\ UNCHANGED <<mret, everOk>>

MigrateCall(p) ==
    /\ pc[p] \in {"idle", "done"}
    /\ pc' = [pc EXCEPT ![p] = "check_old"]
    /\ mret' = [mret EXCEPT ![p] = NoRet]
    /\ fs0' = [fs0 EXCEPT ![p] = fs]
    /\ steps' = [steps EXCEPT ![p] = {}]
    /\ src' = [src EXCEPT ![p] = <<>>]
    /\ priorOk' = [priorOk EXCEPT ![p] = everOk]
    /\ q' = NoQuery
    /\ UNCHANGED <<fs, everOk, matchVars, hookVars, threadVars>>

\* if !old_path.exists() { return Err(MigrationFailed) }
CheckOld(p) ==
    /\ pc[p] = "check_old"
    /\ IF ~path_exists(OLD_PATH)
       THEN Return(p, Err("MigrationFailed", "Old configuration file does not exist"))
       ELSE Goto(p, "check_new")
    /\ UNCHANGED <<fs, src, fs0, steps, priorOk, q, matchVars, hookVars, threadVars>>

CheckNew_ignored(p) ==
    /\ pc[p] = "check_new"
    /\ Goto(p, "backup_open")
    /\ UNCHANGED <<fs, src, fs0, steps, priorOk, q, matchVars, hookVars, threadVars>>

\* if new_path.exists() { return Err(MigrationFailed) }
CheckNew(p) ==
    /\ pc[p] = "check_new"
    /\ IF path_exists(NEW_PATH)
       THEN Return(p, Err("MigrationFailed", "New configuration file already exists"))
       ELSE Goto(p, "backup_open")
    /\ UNCHANGED <<fs, src, fs0, steps, priorOk, q, matchVars, hookVars, threadVars>>

\* fs::copy, first half: open the source for reading and create or truncate
\* the destination.  Either open may fail, and then nothing has changed.
CopyOpen(p, from, to, kind, msg, next) ==
    \E ok \in BOOLEAN :
        IF ok /\ path_exists(from)
        THEN /\ fs' = [fs EXCEPT ![to] = FileOf(<<>>)]
             /\ src' = [src EXCEPT ![p] = fs[from].data]
             /\ Goto(p, next)
        ELSE /\ Return(p, Err(kind, msg))
             /\ UNCHANGED <<fs, src>>

\* fs::copy, second half: write the source's bytes to the destination.  A
\* failed write leaves the n lines written so far.
CopyWrite(p, to, step, kind, msg, next) ==
    \E ok \in BOOLEAN, n \in 0..Len(src[p]) :
        /\ ok => n = Len(src[p])
        /\ fs' = IF path_exists(to)
                 THEN [fs EXCEPT ![to] = FileOf(SubSeq(src[p], 1, n))]
                 ELSE fs
        /\ IF ok
           THEN /\ steps' = [steps EXCEPT ![p] = @ \cup {step}]
                /\ Goto(p, next)
           ELSE /\ Return(p, Err(kind, msg))
                /\ UNCHANGED steps

\* fs::copy(&old_path, &backup_path).map_err(BackupFailed)?
BackupOpen(p) ==
    /\ pc[p] = "backup_open"
    /\ CopyOpen(p, OLD_PATH, BACKUP_PATH, "BackupFailed",
                "Failed to create backup", "backup_write")
    /\ UNCHANGED <<fs0, steps, priorOk, q, matchVars, hookVars, threadVars>>

BackupWrite_misreported(p) ==
    /\ pc[p] = "backup_write"
    /\ CopyWrite(p, BACKUP_PATH, "backup", "MigrationFailed",
                 "Failed to create backup", "copy_open")
    /\ UNCHANGED <<src, fs0, priorOk, q, matchVars, hookVars, threadVars>>

BackupWrite(p) ==
    /\ pc[p] = "backup_write"
    /\ CopyWrite(p, BACKUP_PATH, "backup", "BackupFailed",
                 "Failed to create backup", "copy_open")
    /\ UNCHANGED <<src, fs0, priorOk, q, matchVars, hookVars, threadVars>>

\* fs::copy(&old_path, &new_path).map_err(MigrationFailed)?
NewOpen(p) ==
    /\ pc[p] = "copy_open"
    /\ CopyOpen(p, OLD_PATH, NEW_PATH, "MigrationFailed",
                "Failed to copy to new location", "copy_write")
    /\ UNCHANGED <<fs0, steps, priorOk, q, matchVars, hookVars, threadVars>>

NewWrite(p) ==
    /\ pc[p] = "copy_write"
    /\ CopyWrite(p, NEW_PATH, "copy", "MigrationFailed",
                 "Failed to copy to new location", "validate")
    /\ UNCHANGED <<src, fs0, priorOk, q, matchVars, hookVars, threadVars>>

Validate_unchecked(p) ==
    /\ pc[p] = "validate"
    /\ Goto(p, "remove_old")
    /\ UNCHANGED <<fs, src, fs0, steps, priorOk, q, matchVars, hookVars, threadVars>>

\* load_config_from_path(&new_path): on Err the closure of map_err runs next.
Validate(p) ==
    /\ pc[p] = "validate"
    /\ \E readable \in BOOLEAN :
          IF load_config_from_path(NEW_PATH, readable).tag = "Ok"
          THEN /\ steps' = [steps EXCEPT ![p] = @ \cup {"validate"}]
               /\ Goto(p, "remove_old")
          ELSE /\ Goto(p, "rollback")
               /\ UNCHANGED steps
    /\ UNCHANGED <<fs, src, fs0, priorOk, q, matchVars, hookVars, threadVars>>

\* let _ = fs::remove_file(&new_path); the result of the removal is dropped.
Rollback(p) ==
    /\ pc[p] = "rollback"
    /\ \E ok \in BOOLEAN :
          fs' = IF ok THEN [fs EXCEPT ![NEW_PATH] = NoFile] ELSE fs
    /\ Return(p, Err("MigrationFailed", "New configuration validation failed"))
    /\ UNCHANGED <<src, fs0, steps, priorOk, q, matchVars, hookVars, threadVars>>

RemoveOld_keeps(p) ==
    /\ pc[p] = "remove_old"
    /\ steps' = [steps EXCEPT ![p] = @ \cup {"remove"}]
    /\ Return(p, Ok(NEW_PATH))
    /\ UNCHANGED <<fs, src, fs0, priorOk, q, matchVars, hookVars, threadVars>>

RemoveOld_removes_new(p) ==
    /\ pc[p] = "remove_old"
    /\ fs' = [fs EXCEPT ![NEW_PATH] = NoFile]
    /\ steps' = [steps EXCEPT ![p] = @ \cup {"remove"}]
    /\ Return(p, Ok(NEW_PATH))
    /\ UNCHANGED <<src, fs0, priorOk, q, matchVars, hookVars, threadVars>>

RemoveOld_failure_rolls_back(p) ==
    /\ pc[p] = "remove_old"
    /\ \E ok \in BOOLEAN :
          IF ok /\ path_exists(OLD_PATH)
          THEN /\ fs' = [fs EXCEPT ![OLD_PATH] = NoFile]
               /\ steps' = [steps EXCEPT ![p] = @ \cup {"remove"}]
               /\ Return(p, Ok(NEW_PATH))
          ELSE /\ fs' = [fs EXCEPT ![NEW_PATH] = NoFile]
               /\ Return(p, Err("MigrationFailed", "Failed to remove original file"))
               /\ UNCHANGED steps
    /\ UNCHANGED <<src, fs0, priorOk, q, matchVars, hookVars, threadVars>>

RemoveOld_ignores_failure(p) ==
    /\ pc[p] = "remove_old"
    /\ \E ok \in BOOLEAN :
          fs' = IF ok THEN [fs EXCEPT ![OLD_PATH] = NoFile] ELSE fs
    /\ steps' = [steps EXCEPT ![p] = @ \cup {"remove"}]
    /\ Return(p, Ok(NEW_PATH))
    /\ UNCHANGED <<src, fs0, priorOk, q, matchVars, hookVars, threadVars>>

\* fs::remove_file(&old_path).map_err(MigrationFailed)?; Ok(new_path)
RemoveOld(p) ==
    /\ pc[p] = "remove_old"
    /\ \E ok \in BOOLEAN :
          IF ok /\ path_exists(OLD_PATH)
          THEN /\ fs' = [fs EXCEPT ![OLD_PATH] = NoFile]
               /\ steps' = [steps EXCEPT ![p] = @ \cup {"remove"}]
               /\ Return(p, Ok(NEW_PATH))
          ELSE /\ Return(p, Err("MigrationFailed", "Failed to remove original file"))
               /\ UNCHANGED <<fs, steps>>
    /\ UNCHANGED <<src, fs0, priorOk, q, matchVars, hookVars, threadVars>>

migrate_config(p) ==
    \/ MigrateCall(p)
    \/ CheckOld(p)
    \/ CheckNew(p)
    \/ BackupOpen(p)
    \/ BackupWrite(p)
    \/ NewOpen(p)
    \/ NewWrite(p)
    \/ Validate(p)
    \/ Rollback(p)
    \/ RemoveOld(p)

(***************************************************************************)
(* The query operations, called between migrations                         *)
(***************************************************************************)
Query(op, r, d, readable) ==
    /\ Quiescent
    /\ q' = [op |-> op, res |-> r, diag |-> d, readable |-> readable, seen |-> fs]
    /\ UNCHANGED <<fs, pc, src, mret, fs0, steps, everOk, priorOk, matchVars, hookVars, threadVars>>

NeedsMigrationCall == Query("needs_migration", needs_migration, FALSE, TRUE)

FindConfigFileCall == Query("find_config_file", find_config_file, FALSE, TRUE)

LoadConfigAutoCall ==
    \E readable \in BOOLEAN :
        LET r == load_config_auto(readable) IN
        Query("load_config_auto", r.res, r.diag, readable)

StoreInit ==
    /\ fs \in [Paths -> Files]
    /\ pc = [p \in Procs |-> "idle"]
    /\ src = [p \in Procs |-> <<>>]
    /\ mret = [p \in Procs |-> NoRet]
    /\ fs0 = [p \in Procs |-> fs]
    /\ steps = [p \in Procs |-> {}]
    /\ everOk = FALSE
    /\ priorOk = [p \in Procs |-> FALSE]
    /\ q = NoQuery

MatchOff ==
    /\ decl = <<>>
    /\ config = EmptyConfig
    /\ command = <<>>
    /\ iter = <<>>
    /\ result = [tag |-> "NotRun", suggestion |-> <<>>, replacement |-> <<>>]
    /\ cache = {}
    /\ mphase = "off"

\* An Option<T>: Some(v), or None (d fills the place of the value).
Present(v) == [some |-> TRUE, v |-> v]
Absent(d) == [some |-> FALSE, v |-> d]

NoToolInput == Absent([command |-> Absent(<<>>)])
NoToolResponse == Absent([exit_code |-> Absent(0)])

\* The fields of a HookInput that hooks.rs reads.
NoInput ==
    [hook_event_name |-> "", tool_name |-> Absent(""), tool_input |-> NoToolInput,
     prompt |-> Absent(<<>>), tool_response |-> NoToolResponse]

\* No hook process runs.
HookOff ==
    /\ hpc = "off"
    /\ args = [config_path |-> NEW_PATH, replace_mode |-> FALSE]
    /\ stdin = [syntax_ok |-> FALSE, hook_event_name |-> Absent(""),
                tool_name |-> Absent(""), tool_input |-> NoToolInput,
                prompt |-> Absent(<<>>), tool_response |-> NoToolResponse]
    /\ hook_input = NoInput
    /\ stdout = <<>>
    /\ stderr = <<>>
    /\ status = "none"
    /\ ran = {}

Threads == {1, 2}

\* No thread calls get_cached_regex.
ThreadsOff ==
    /\ tpc = [t \in Threads |-> "off"]
    /\ tpat = [t \in Threads |-> <<>>]
    /\ treg = [t \in Threads |-> [ok |-> FALSE, prog |-> <<>>]]
    /\ tret = [t \in Threads |-> [ok |-> FALSE, prog |-> <<>>]]
    /\ lock = 0
    /\ calls = [t \in Threads |-> <<>>]
    /\ compiled = <<>>

Init == StoreInit /\ MatchOff /\ HookOff /\ ThreadsOff

Next ==
    \/ migrate_config(1)
    \/ NeedsMigrationCall
    \/ FindConfigFileCall
    \/ LoadConfigAutoCall

Spec == Init /\ [][Next]_vars

(***************************************************************************)
(* Claims about the configuration store                                    *)
(***************************************************************************)
AllSteps == {"backup", "copy", "validate", "remove"}

OrigLegacy(p) == fs0[p][OLD_PATH]

\* C1: a migrate_config() run called with a valid legacy file and no current
\* file, in which every step succeeds, returns the current path and ends with
\* the legacy file absent, the current file and the backup file both holding
\* the legacy file's original content (whatever the backup held before), and
\* the current file loading successfully.
C1_FullSuccess ==
    \A p \in Procs :
        (/\ pc[p] = "done"
         /\ steps[p] = AllSteps
         /\ OrigLegacy(p).exists
         /\ ~fs0[p][NEW_PATH].exists)
        => /\ mret[p] = Ok(NEW_PATH)
           /\ ~path_exists(OLD_PATH)
           /\ fs[NEW_PATH] = FileOf(OrigLegacy(p).data)
           /\ fs[BACKUP_PATH] = FileOf(OrigLegacy(p).data)
           /\ toml_from_str(OrigLegacy(p).data).tag = "Ok"
           /\ load_config_from_path(NEW_PATH, TRUE).tag = "Ok"

C1_Witness ==
    /\ pc[1] = "done"
    /\ steps[1] = AllSteps
    /\ mret[1] = Ok(NEW_PATH)
    /\ fs0[1][BACKUP_PATH].exists
    /\ fs0[1][BACKUP_PATH] # OrigLegacy(1)
    /\ OrigLegacy(1).data # <<>>

\* While validation has not succeeded the legacy file is as it was at the call.
C2_LegacyIntact ==
    \A p \in Procs :
        (pc[p] # "idle" /\ "validate" \notin steps[p]) => fs[OLD_PATH] = OrigLegacy(p)

\* A step that removes the legacy file follows a successful backup, copy and
\* validation, touches no other file and ends the run.
C2_DeleteStep ==
    (path_exists(OLD_PATH) /\ ~path_exists(OLD_PATH)')
    => \E p \in Procs :
          /\ {"backup", "copy", "validate"} \subseteq steps[p]
          /\ pc[p] = "remove_old"
          /\ pc'[p] = "done"
          /\ \A f \in Paths \ {OLD_PATH} : fs'[f] = fs[f]

\* C2: in every run of migrate_config(), whatever step fails, the legacy file
\* keeps its original content until validation has succeeded, and its removal
\* comes after the backup, the copy and the validation and is the last file
\* system action of the run.
C2_DeleteLast == []C2_LegacyIntact /\ [][C2_DeleteStep]_vars

C2_Witness ==
    /\ pc[1] = "done"
    /\ "copy" \in steps[1]
    /\ "validate" \notin steps[1]
    /\ mret[1].tag = "Err"
    /\ path_exists(OLD_PATH)
    /\ fs[OLD_PATH] = OrigLegacy(1)

\* C3: called without a legacy file, or with both the legacy and the current
\* file present, migrate_config() fails with MigrationFailed and no file is
\* created, changed or removed at any point of the run.
C3_PreconditionFrame ==
    \A p \in Procs :
        (pc[p] # "idle" /\ (~OrigLegacy(p).exists \/ fs0[p][NEW_PATH].exists))
        => /\ fs = fs0[p]
           /\ pc[p] \in {"check_old", "check_new", "done"}
           /\ pc[p] = "done" => (mret[p].tag = "Err" /\ mret[p].kind = "MigrationFailed")

C3_Witness ==
    /\ pc[1] = "done"
    /\ OrigLegacy(1).exists
    /\ fs0[1][NEW_PATH].exists
    /\ fs0[1][NEW_PATH] # OrigLegacy(1)
    /\ ~path_exists(BACKUP_PATH)
    /\ mret[1].kind = "MigrationFailed"

\* C4: a migrate_config() invocation called after an invocation that returned
\* Ok fails with MigrationFailed and leaves the current and backup files as
\* they were at its call.
C4_SecondMigrateFails ==
    \A p \in Procs :
        (pc[p] # "idle" /\ priorOk[p])
        => /\ ~OrigLegacy(p).exists
           /\ fs[NEW_PATH] = fs0[p][NEW_PATH]
           /\ fs[BACKUP_PATH] = fs0[p][BACKUP_PATH]
           /\ pc[p] \in {"check_old", "done"}
           /\ pc[p] = "done" => (mret[p].tag = "Err" /\ mret[p].kind = "MigrationFailed")

C4_Witness ==
    /\ pc[1] = "done"
    /\ priorOk[1]
    /\ mret[1].kind = "MigrationFailed"
    /\ path_exists(NEW_PATH)
    /\ path_exists(BACKUP_PATH)

\* C5: needs_migration() returns the legacy path if and only if the legacy
\* file exists and the current file does not, and nothing otherwise.
C5_NeedsMigration ==
    q.op = "needs_migration"
    => /\ q.res = Ok(OLD_PATH) <=> (q.seen[OLD_PATH].exists /\ ~q.seen[NEW_PATH].exists)
       /\ q.res # Ok(OLD_PATH) => q.res = NoRet

C5_Witness ==
    /\ q.op = "needs_migration"
    /\ q.seen[OLD_PATH].exists
    /\ q.seen[NEW_PATH].exists
    /\ q.res = NoRet

\* C6: find_config_file() returns the current path whenever the current file
\* exists, the legacy path only when the current file is absent and the
\* legacy file exists, and NotFound exactly when neither exists.
C6_Discover ==
    q.op = "find_config_file"
    => /\ q.seen[NEW_PATH].exists => q.res = Ok(NEW_PATH)
       /\ q.res = Ok(OLD_PATH) <=> (~q.seen[NEW_PATH].exists /\ q.seen[OLD_PATH].exists)
       /\ (q.res.tag = "Err" /\ q.res.kind = "NotFound")
            <=> (~q.seen[NEW_PATH].exists /\ ~q.seen[OLD_PATH].exists)
       /\ q.res.tag \in {"Ok", "Err"}

C6_Witness ==
    /\ q.op = "find_config_file"
    /\ q.seen[NEW_PATH].exists
    /\ q.seen[OLD_PATH].exists
    /\ q.res = Ok(NEW_PATH)

\* The file load_config_auto() loads: the one find_config_file() yields.
Discovered(dir) ==
    IF dir[NEW_PATH].exists THEN NEW_PATH ELSE OLD_PATH

\* C7: load_config_auto() with no configuration file returns the empty
\* Configuration and prints the diagnostic; it returns an error only when a
\* file was discovered and reading or parsing it failed.
C7_LoadAutoNotFound ==
    q.op = "load_config_auto"
    => LET none == ~q.seen[NEW_PATH].exists /\ ~q.seen[OLD_PATH].exists IN
       /\ none => (q.res = Ok(EmptyConfig) /\ q.diag)
       /\ q.res.tag \in {"Ok", "Err"}
       /\ q.res.tag = "Err"
            => /\ ~none
               /\ q.res.kind \in {"ReadFailed", "ParseFailed"}
               /\ q.res.kind = "ReadFailed" => ~q.readable
               /\ q.res.kind = "ParseFailed"
                    => toml_from_str(q.seen[Discovered(q.seen)].data).tag = "Err"
       /\ (~none /\ q.readable
             /\ toml_from_str(q.seen[Discovered(q.seen)].data).tag = "Ok")
            => (q.res.tag = "Ok" /\ ~q.diag)

C7_Witness ==
    /\ q.op = "load_config_auto"
    /\ ~q.seen[NEW_PATH].exists
    /\ ~q.seen[OLD_PATH].exists
    /\ q.seen[BACKUP_PATH].exists
    /\ q.res = Ok(EmptyConfig)
    /\ q.diag

(***************************************************************************)
(* The regex crate, as far as `\b<escaped literal>\b` uses it              *)
(***************************************************************************)
\* \w, and the letters of a capture-group name.
WordChars ==
    {"a", "b", "c", "d", "e", "f", "g", "h", "i", "j", "k", "l", "m",
     "n", "o", "p", "q", "r", "s", "t", "u", "v", "w", "x", "y", "z",
     "A", "B", "C", "D", "E", "F", "G", "H", "I", "J", "K", "L", "M",
     "N", "O", "P", "Q", "R", "S", "T", "U", "V", "W", "X", "Y", "Z",
     "0", "1", "2", "3", "4", "5", "6", "7", "8", "9", "_"}

IsWordChar_with_hyphen(c) == c \in WordChars \cup {"-"}

IsWordChar(c) == c \in WordChars

\* The characters regex::escape puts a backslash before.
MetaChars ==
    {"\\", ".", "+", "*", "?", "(", ")", "|", "[", "]", "{", "}", "^", "$",
     "#", "&", "-", "~"}

\* Of these, the ones that are literals when written without the backslash.
PlainMeta == {"#", "&", "-", "~"}

RECURSIVE regex_escape(_)
regex_escape(s) ==
    IF s = <<>> THEN <<>>
    ELSE (IF Head(s) \in MetaChars THEN <<"\\", Head(s)>> ELSE <<Head(s)>>)
         \o regex_escape(Tail(s))

\* format!(r"\b{}\b", regex::escape(pattern))
format_regex_pattern(pattern) ==
    <<"\\", "b">> \o regex_escape(pattern) \o <<"\\", "b">>

Literal(c) == [kind |-> "char", ch |-> c]
Boundary == [kind |-> "b", ch |-> ""]
NoRegex == [ok |-> FALSE, prog |-> <<>>]

\* The parser of Regex::new on the text format_regex_pattern builds: `\b` is
\* the word boundary, a backslash before a meta character is that character,
\* any other character is itself.  Syntax that regex::escape never produces
\* (operators, classes, other escapes) is not compiled here.
RECURSIVE Regex_parse(_)
Regex_parse(text) ==
    IF text = <<>> THEN [ok |-> TRUE, prog |-> <<>>]
    ELSE IF Head(text) = "\\"
    THEN IF Len(text) < 2 THEN NoRegex
         ELSE LET rest == Regex_parse(SubSeq(text, 3, Len(text))) IN
              IF ~rest.ok THEN NoRegex
              ELSE IF text[2] = "b"
              THEN [ok |-> TRUE, prog |-> <<Boundary>> \o rest.prog]
              ELSE IF text[2] \in MetaChars
              THEN [ok |-> TRUE, prog |-> <<Literal(text[2])>> \o rest.prog]
              ELSE NoRegex
    ELSE IF Head(text) \in MetaChars \ PlainMeta THEN NoRegex
    ELSE LET rest == Regex_parse(Tail(text)) IN
         IF ~rest.ok THEN NoRegex
         ELSE [ok |-> TRUE, prog |-> <<Literal(Head(text))>> \o rest.prog]

\* The size limit of a compiled program (10 MiB in the regex crate), scaled to
\* a number of program items.
REGEX_SIZE_LIMIT == 11

\* Regex::new: the parsed program, or an error when the text does not parse
\* or the program is larger than the size limit.
Regex_new(text) ==
    LET parsed == Regex_parse(text) IN
    IF parsed.ok /\ Len(parsed.prog) > REGEX_SIZE_LIMIT THEN NoRegex ELSE parsed

\* Offsets run from 0 (before the first character) to Len (after the last).
WordAt(text, j) == j \in 1..Len(text) /\ IsWordChar(text[j])

\* \b at an offset: exactly one of the two neighbours is a word character.
IsBoundary(text, pos) == WordAt(text, pos) # WordAt(text, pos + 1)

\* Runs the program from item k at offset pos: the end offset, or -1.
RECURSIVE RunProg(_, _, _, _)
RunProg(prog, k, text, pos) ==
    IF k > Len(prog) THEN pos
    ELSE IF prog[k].kind = "b"
    THEN IF IsBoundary(text, pos) THEN RunProg(prog, k + 1, text, pos) ELSE -1
    ELSE IF pos < Len(text) /\ text[pos + 1] = prog[k].ch
    THEN RunProg(prog, k + 1, text, pos + 1)
    ELSE -1

NoMatch == [found |-> FALSE, start |-> -1, end |-> -1]

\* Regex::find_at: the leftmost match that starts at or after `from`.
find_at(prog, text, from) ==
    LET S == {s \in from..Len(text) : RunProg(prog, 1, text, s) >= 0} IN
    IF S = {} THEN NoMatch
    ELSE LET s == CHOOSE x \in S : \A y \in S : x <= y IN
         [found |-> TRUE, start |-> s, end |-> RunProg(prog, 1, text, s)]

is_match_at_start(prog, text) == RunProg(prog, 1, text, 0) >= 0

\* Regex::is_match
is_match(prog, text) == find_at(prog, text, 0).found

\* Regex::find_iter: successive non-overlapping matches; an empty match that
\* ends where the previous match ended is skipped.
RECURSIVE find_iter(_, _, _, _)
find_iter(prog, text, from, lastEnd) ==
    IF from > Len(text) THEN <<>>
    ELSE LET m == find_at(prog, text, from) IN
         IF ~m.found THEN <<>>
         ELSE IF m.start = m.end /\ m.end = lastEnd
         THEN find_iter(prog, text, from + 1, lastEnd)
         ELSE <<m>> \o find_iter(prog, text, m.end, m.end)

\* The capture reference at the head of rep (rep[1] = "$"): "${name}" up to
\* the first "}", or else the longest run of group-name letters after the "$".
find_cap_ref(rep) ==
    IF Len(rep) >= 2 /\ rep[2] = "{"
    THEN LET closes == {j \in 3..Len(rep) : rep[j] = "}"} IN
         IF closes = {} THEN [found |-> FALSE, end |-> 1, name |-> <<>>]
         ELSE LET e == CHOOSE x \in closes : \A y \in closes : x <= y IN
              [found |-> TRUE, end |-> e, name |-> SubSeq(rep, 3, e - 1)]
    ELSE LET run == {j \in 2..Len(rep) : \A i \in 2..j : IsWordChar(rep[i])} IN
         IF run = {} THEN [found |-> FALSE, end |-> 1, name |-> <<>>]
         ELSE LET e == CHOOSE x \in run : \A y \in run : y <= x IN
              [found |-> TRUE, end |-> e, name |-> SubSeq(rep, 2, e)]

\* The text of the capture group a reference names.  `\b<literal>\b` has
\* group 0 (the whole match) and no other group, numbered or named.
GroupText(name, whole) ==
    IF name # <<>> /\ (\A i \in 1..Len(name) : name[i] = "0") THEN whole ELSE <<>>

\* Replacer for &String (regex's interpolation): "$$" is "$", "$name" is the
\* group's text or nothing, a "$" that starts no reference is itself.
RECURSIVE interpolate(_, _)
interpolate(rep, whole) ==
    IF rep = <<>> THEN <<>>
    ELSE IF Head(rep) # "$" THEN <<Head(rep)>> \o interpolate(Tail(rep), whole)
    ELSE IF Len(rep) >= 2 /\ rep[2] = "$"
    THEN <<"$">> \o interpolate(SubSeq(rep, 3, Len(rep)), whole)
    ELSE LET ref == find_cap_ref(rep) IN
         IF ~ref.found THEN <<"$">> \o interpolate(Tail(rep), whole)
         ELSE GroupText(ref.name, whole)
              \o interpolate(SubSeq(rep, ref.end + 1, Len(rep)), whole)

RECURSIVE Splice(_, _, _, _, _)
Splice(text, ms, i, last, rep) ==
    IF i > Len(ms) THEN SubSeq(text, last + 1, Len(text))
    ELSE SubSeq(text, last + 1, ms[i].start)
         \o interpolate(rep, SubSeq(text, ms[i].start + 1, ms[i].end))
         \o Splice(text, ms, i + 1, ms[i].end, rep)

replace_first(prog, text, rep) ==
    LET ms == find_iter(prog, text, 0, -1) IN
    Splice(text, IF ms = <<>> THEN ms ELSE <<ms[1]>>, 1, 0, rep)

\* Regex::replace_all
replace_all(prog, text, rep) ==
    Splice(text, find_iter(prog, text, 0, -1), 1, 0, rep)

(***************************************************************************)
(* get_cached_regex and check_command_mappings                             *)
(***************************************************************************)
NotRun == [tag |-> "NotRun", suggestion |-> <<>>, replacement |-> <<>>]
None == [tag |-> "None", suggestion |-> <<>>, replacement |-> <<>>]
Some(suggestion, replacement_cmd) ==
    [tag |-> "Some", suggestion |-> suggestion, replacement |-> replacement_cmd]
PatternInvalid == [tag |-> "Err", suggestion |-> <<>>, replacement |-> <<>>]

\* get_cached_regex: the regex, and the cache after the call.
get_cached_regex(c, text) ==
    IF \E e \in c : e[1] = text
    THEN [res |-> (CHOOSE e \in c : e[1] = text)[2], cache |-> c]
    ELSE LET regex == Regex_new(text) IN
         IF ~regex.ok THEN [res |-> regex, cache |-> c]
         ELSE [res |-> regex, cache |-> c \cup {<<text, regex>>}]

\* format!("Command '{pattern}' is mapped to use '{replacement}' instead. Try: {suggested_command}")
Suggestion(pattern, replacement, suggested_command) ==
    <<"Command '">> \o pattern \o <<"' is mapped to use '">> \o replacement
    \o <<"' instead. Try: ">> \o suggested_command

\* check_command_mappings over the entries in the order the map yields them,
\* from entry i on: what it returns, and the cache afterwards.
RECURSIVE CheckFrom(_, _, _, _)
CheckFrom(order, i, cmd, c) ==
    IF i > Len(order) THEN [ret |-> None, cache |-> c]
    ELSE LET pattern == order[i][1]
             replacement == order[i][2]
             got == get_cached_regex(c, format_regex_pattern(pattern))
         IN  IF ~got.res.ok THEN [ret |-> PatternInvalid, cache |-> got.cache]
             ELSE IF is_match(got.res.prog, cmd)
             THEN LET suggested_command == replace_all(got.res.prog, cmd, replacement) IN
                  [ret |-> Some(Suggestion(pattern, replacement, suggested_command),
                                suggested_command),
                   cache |-> got.cache]
             ELSE CheckFrom(order, i + 1, cmd, got.cache)

check_command_mappings(order, cmd, c) == CheckFrom(order, 1, cmd, c)

(***************************************************************************)
(* One hook process: load the configuration, check one command             *)
(***************************************************************************)
Chars_npm == <<"n", "p", "m">>
Chars_bun == <<"b", "u", "n">>
Chars_yarn == <<"y", "a", "r", "n">>
Chars_start == <<"s", "t", "a", "r", "t">>
Chars_install == <<"i", "n", "s", "t", "a", "l", "l">>
Chars_npm_start == Chars_npm \o <<" ">> \o Chars_start
Chars_bun_dev == Chars_bun \o <<" ", "d", "e", "v">>

\* Mappings that get_commands_for_project_type writes for a Node.js project.
SampleRules ==
    {<<Chars_npm, Chars_bun>>, <<Chars_yarn, Chars_bun>>,
     <<Chars_npm_start, Chars_bun_dev>>}

\* Commands of the unit tests of hooks.rs.
SampleCommands ==
    {Chars_npm_start,
     Chars_npm \o <<" ">> \o Chars_install,
     Chars_npm \o <<" ", " ", " ">> \o Chars_install,
     <<"m", "y", "-">> \o Chars_npm \o <<"-", "t", "o", "o", "l">>,
     Chars_npm \o <<"-", "c", "h", "e", "c", "k">>,
     Chars_yarn \o <<" ">> \o Chars_start,
     <<>>}

\* A rule whose pattern compiles to a program above the size limit.
OversizedRule == <<Chars_npm \o <<" ">> \o Chars_install, Chars_bun>>

\* Rules whose replacement holds a "$" followed by a digit, letters or braces.
DollarRules ==
    {<<Chars_npm, <<"$", "1">> \o Chars_bun>>,
     <<Chars_npm, <<"$", "H", "O", "M", "E", "/">> \o Chars_bun>>,
     <<Chars_npm, <<"$", "{", "0", "}", "x">> >>,
     <<Chars_npm, <<"$", "{">> \o Chars_bun>>}

\* A rule whose replacement is the head of its pattern, and a command that
\* repeats the pattern's tail.
Chars_run == <<"r", "u", "n">>
ShorteningRule == <<Chars_npm \o <<" ">> \o Chars_run, Chars_npm>>
RepeatingCommand == Chars_npm \o <<" ">> \o Chars_run \o <<" ">> \o Chars_run

PatternAlphabet == {"a", "-"}
ReplacementAlphabet == {"b", "$"}
CommandAlphabet == {"a", "-", " "}

Patterns == SeqsUpTo(PatternAlphabet, MaxPatLen)
Replacements == SeqsUpTo(ReplacementAlphabet, MaxReplLen)
Commands == SeqsUpTo(CommandAlphabet, MaxCmdLen)

\* A [commands] table: its keys are distinct.
IsTable(d) == \A i, j \in 1..Len(d) : i # j => d[i][1] # d[j][1]

SampleTables == {d \in SeqsUpTo(SampleRules \cup {OversizedRule}, MaxRules) : IsTable(d)}

MatchInputs ==
    {<<<< <<p, r>> >>, c>> : p \in Patterns, r \in Replacements, c \in Commands}
    \cup (SampleTables \X SampleCommands)
    \cup {<<<<r>>, c>> : r \in DollarRules, c \in SampleCommands}
    \cup {<<<<ShorteningRule>>, c>> : c \in SampleCommands \cup {RepeatingCommand}}

\* The orders in which a HashMap may yield the entries S.
IterationOrders(S) ==
    {o \in [1..Cardinality(S) -> S] : \A x \in S : \E i \in 1..Cardinality(S) : o[i] = x}

\* load_config: the table becomes a HashMap, whose iteration order is fixed
\* by the process's random hash seed.
LoadConfig ==
    /\ mphase = "start"
    /\ config' = [commands |-> {decl[i] : i \in 1..Len(decl)},
                  semantic_directories |-> {}]
    /\ iter' \in IterationOrders(config'.commands)
    /\ mphase' = "loaded"
    /\ UNCHANGED <<decl, command, result, cache, storeVars, hookVars, threadVars>>

CheckCommand ==
    /\ mphase = "loaded"
    /\ LET r == check_command_mappings(iter, command, cache) IN
          /\ result' = r.ret
          /\ cache' = r.cache
    /\ mphase' = "checked"
    /\ UNCHANGED <<decl, config, command, iter, storeVars, hookVars, threadVars>>

StoreOff ==
    /\ fs = [p \in Paths |-> NoFile]
    /\ pc = [p \in Procs |-> "idle"]
    /\ src = [p \in Procs |-> <<>>]
    /\ mret = [p \in Procs |-> NoRet]
    /\ fs0 = [p \in Procs |-> fs]
    /\ steps = [p \in Procs |-> {}]
    /\ everOk = FALSE
    /\ priorOk = [p \in Procs |-> FALSE]
    /\ q = NoQuery

MatchInit ==
    /\ StoreOff
    /\ \E inp \in MatchInputs :
          /\ decl = inp[1]
          /\ command = inp[2]
    /\ config = EmptyConfig
    /\ iter = <<>>
    /\ result = NotRun
    /\ cache = {}
    /\ mphase = "start"
    /\ HookOff
    /\ ThreadsOff

MatchNext ==
    \/ LoadConfig
    \/ CheckCommand

SpecMatch == MatchInit /\ [][MatchNext]_vars

(***************************************************************************)
(* Claims about the command matcher                                        *)
(***************************************************************************)
OneRule == Len(decl) = 1
RuleP == decl[1][1]
RuleR == decl[1][2]

\* P stands in C from index i on, with a non-word character or an edge of the
\* string immediately before it and immediately after it.
OccursBetweenNonWord(P, C, i) ==
    /\ i \in 1..(Len(C) - Len(P) + 1)
    /\ SubSeq(C, i, i + Len(P) - 1) = P
    /\ i = 1 \/ ~IsWordChar(C[i - 1])
    /\ i + Len(P) - 1 = Len(C) \/ ~IsWordChar(C[i + Len(P)])

WordBoundedAt(P, C, i) ==
    /\ i \in 1..(Len(C) - Len(P) + 1)
    /\ SubSeq(C, i, i + Len(P) - 1) = P
    /\ IsBoundary(C, i - 1)
    /\ IsBoundary(C, i - 1 + Len(P))

\* C from index i on, each word-bounded occurrence of P met from left to
\* right replaced by the text R, every other character copied.
RECURSIVE Rewritten(_, _, _, _)
Rewritten(P, R, C, i) ==
    IF i > Len(C) THEN <<>>
    ELSE IF WordBoundedAt(P, C, i) THEN R \o Rewritten(P, R, C, i + Len(P))
    ELSE <<C[i]>> \o Rewritten(P, R, C, i + 1)

\* C9: when the rule (P, R) matches, the replacement check_command_mappings
\* returns is the command with every non-overlapping word-bounded occurrence
\* of P replaced by R and every other character kept verbatim and in order.
C9_EveryOccurrenceReplaced ==
    (mphase = "checked" /\ OneRule /\ RuleP # <<>> /\ result.tag = "Some")
    => result.replacement = Rewritten(RuleP, RuleR, command, 1)

\* C10: check_command_mappings returns what the rules give when tried in the
\* order the configuration file declares them, the first that matches
\* applied alone; the result is a function of the file and the command.
C10_DeclarationOrder ==
    mphase = "checked" => result = check_command_mappings(decl, command, {}).ret

\* The pattern of rule r cannot be compiled.
Uncompilable(r) == ~Regex_new(format_regex_pattern(r[1])).ok

\* C11: if any rule of the configuration has a pattern that cannot be
\* compiled, check_command_mappings fails with PatternInvalid for every
\* command, wherever the rule stands in the iteration order; no match is
\* returned.
C11_InvalidRuleAlwaysFails ==
    (mphase = "checked" /\ \E i \in 1..Len(decl) : Uncompilable(decl[i]))
    => result = PatternInvalid

\* What does hold: check_command_mappings fails when no rule iterated before
\* the first uncompilable one matches the command.
C11_InvalidRuleFailsWhenReached ==
    (/\ mphase = "checked"
     /\ \E i \in 1..Len(iter) :
           /\ Uncompilable(iter[i])
           /\ \A j \in 1..(i - 1) :
                 /\ ~Uncompilable(iter[j])
                 /\ ~is_match(Regex_new(format_regex_pattern(iter[j][1])).prog, command))
    => result = PatternInvalid

(***************************************************************************)
(* Claims about the failing steps of migrate_config()                      *)
(***************************************************************************)
\* The run of p has passed both precondition checks.
PastChecks(p) == OrigLegacy(p).exists /\ ~fs0[p][NEW_PATH].exists

\* A run that ended at the backup copy.
C20_AfterBackupFailure ==
    \A p \in Procs :
        (pc[p] = "done" /\ mret[p].kind = "BackupFailed")
        => /\ steps[p] = {}
           /\ fs[OLD_PATH] = OrigLegacy(p)
           /\ ~path_exists(NEW_PATH)

\* The step on which the backup copy fails.
C20_BackupFailureStep ==
    \A p \in Procs :
        (pc[p] \in {"backup_open", "backup_write"} /\ pc'[p] = "done")
        => /\ mret'[p].tag = "Err"
           /\ mret'[p].kind = "BackupFailed"
           /\ mret'[p].kind # "MigrationFailed"
           /\ steps'[p] = {}
           /\ fs'[OLD_PATH] = OrigLegacy(p)
           /\ fs'[OLD_PATH] = fs[OLD_PATH]
           /\ ~fs'[NEW_PATH].exists

\* C20: when the backup copy fails, migrate_config() returns BackupFailed and
\* not MigrationFailed, performs none of the later steps (copy, validation,
\* removal), and leaves the legacy file unchanged and the current path absent.
C20_BackupFailure == []C20_AfterBackupFailure /\ [][C20_BackupFailureStep]_vars

C20_Witness ==
    /\ pc[1] = "done"
    /\ mret[1].kind = "BackupFailed"
    /\ PastChecks(1)
    /\ OrigLegacy(1).data # <<>>
    /\ path_exists(BACKUP_PATH)
    /\ fs[BACKUP_PATH] # OrigLegacy(1)

\* C19: when the copy of the legacy file to the current path fails,
\* migrate_config() returns MigrationFailed, the backup file exists, the
\* legacy file is untouched and no file, complete or partial, exists at the
\* current path.
C19_CopyFailureLeavesNothing ==
    \A p \in Procs :
        (pc[p] = "done" /\ steps[p] = {"backup"})
        => /\ mret[p].tag = "Err"
           /\ mret[p].kind = "MigrationFailed"
           /\ path_exists(BACKUP_PATH)
           /\ fs[OLD_PATH] = OrigLegacy(p)
           /\ ~path_exists(NEW_PATH)

\* What does hold after a failed copy: everything but the absence of a
\* current file.
C19_CopyFailureKeepsLegacy ==
    \A p \in Procs :
        (pc[p] = "done" /\ steps[p] = {"backup"})
        => /\ mret[p].tag = "Err"
           /\ mret[p].kind = "MigrationFailed"
           /\ fs[BACKUP_PATH] = OrigLegacy(p)
           /\ fs[OLD_PATH] = OrigLegacy(p)

\* C18: when migrate_config() fails at the validation step it returns
\* MigrationFailed, the current file does not exist, and the legacy file and
\* the backup file both exist with the original legacy content.
C18_ValidationFailureRollsBack ==
    \A p \in Procs :
        (pc[p] = "done" /\ steps[p] = {"backup", "copy"})
        => /\ mret[p].tag = "Err"
           /\ mret[p].kind = "MigrationFailed"
           /\ ~path_exists(NEW_PATH)
           /\ fs[OLD_PATH] = OrigLegacy(p)
           /\ fs[BACKUP_PATH] = OrigLegacy(p)
           /\ OrigLegacy(p).exists

\* What does hold after a failed validation: the legacy file and the backup.
C18_ValidationFailureKeepsLegacy ==
    \A p \in Procs :
        (pc[p] = "done" /\ steps[p] = {"backup", "copy"})
        => /\ mret[p].tag = "Err"
           /\ mret[p].kind = "MigrationFailed"
           /\ fs[OLD_PATH] = OrigLegacy(p)
           /\ fs[BACKUP_PATH] = OrigLegacy(p)
           /\ OrigLegacy(p).exists

(***************************************************************************)
(* One hook process: run_as_hook and its three handlers                    *)
(***************************************************************************)
DEFAULT_CONFIG_FILE == NEW_PATH

\* load_config(config_path): the result, and whether the warning was printed.
load_config(config_path, readable) ==
    IF ~path_exists(config_path)
    THEN [res |-> Ok(EmptyConfig), diag |-> TRUE]
    ELSE IF ~readable
    THEN [res |-> Err("ReadFailed", config_path), diag |-> FALSE]
    ELSE [res |-> toml_from_str(fs[config_path].data), diag |-> FALSE]

serde_json_from_str_lenient(buffer) ==
    [ok |-> TRUE,
     input |-> [hook_event_name |-> buffer.hook_event_name.v,
                tool_name |-> buffer.tool_name,
                tool_input |-> buffer.tool_input,
                prompt |-> buffer.prompt,
                tool_response |-> buffer.tool_response]]

\* serde_json::from_str::<HookInput>: text that is not JSON, or an object
\* without the hook_event_name string, is an error.
serde_json_from_str(buffer) ==
    IF ~buffer.syntax_ok \/ ~buffer.hook_event_name.some
    THEN [ok |-> FALSE, input |-> NoInput]
    ELSE [ok |-> TRUE,
          input |-> [hook_event_name |-> buffer.hook_event_name.v,
                     tool_name |-> buffer.tool_name,
                     tool_input |-> buffer.tool_input,
                     prompt |-> buffer.prompt,
                     tool_response |-> buffer.tool_response]]

HookOutput(decision, reason, replacement_command) ==
    [decision |-> decision, reason |-> reason,
     replacement_command |-> replacement_command]

to_string_with_null(output) ==
    [decision |-> output.decision, reason |-> output.reason,
     replacement_command |-> output.replacement_command.v]

\* serde_json::to_string(&output): a JSON object, field name -> value; the
\* replacement_command field is skipped when it is None.
to_string(output) ==
    IF output.replacement_command.some
    THEN [decision |-> output.decision, reason |-> output.reason,
          replacement_command |-> output.replacement_command.v]
    ELSE [decision |-> output.decision, reason |-> output.reason]

\* format!("Command mapped: using '{replacement_cmd}' instead")
ReplaceReason(replacement_cmd) ==
    <<"Command mapped: using '">> \o replacement_cmd \o <<"' instead">>

\* `?` on an Err in run_as_hook: the process ends with a failure status.
HookFail ==
    /\ hpc' = "exited"
    /\ status' = "failure"

\* let config = load_config(config_path)?;
HookLoadConfig ==
    /\ hpc = "load_config"
    /\ \E readable \in BOOLEAN :
          LET r == load_config(args.config_path, readable) IN
          /\ stderr' = IF r.diag
                       THEN Append(stderr, [kind |-> "config_not_found",
                                            name |-> args.config_path])
                       ELSE stderr
          /\ IF r.res.tag = "Ok"
             THEN /\ config' = r.res.val
                  /\ iter' \in IterationOrders(config'.commands)
                  /\ hpc' = "read_stdin"
                  /\ UNCHANGED status
             ELSE /\ HookFail
                  /\ UNCHANGED <<config, iter>>
    /\ UNCHANGED <<storeVars, decl, command, result, cache, mphase,
                   args, stdin, hook_input, stdout, ran, threadVars>>

\* io::stdin().read_to_string(&mut buffer)?; serde_json::from_str(&buffer)?
HookReadInput ==
    /\ hpc = "read_stdin"
    /\ \E readable \in BOOLEAN :
          LET parsed == serde_json_from_str(stdin) IN
          IF readable /\ parsed.ok
          THEN /\ hook_input' = parsed.input
               /\ hpc' = "dispatch"
               /\ UNCHANGED status
          ELSE /\ HookFail
               /\ UNCHANGED hook_input
    /\ UNCHANGED <<storeVars, matchVars, args, stdin, stdout, stderr, ran, threadVars>>

Dispatch_post_as_pre ==
    /\ hpc = "dispatch"
    /\ IF hook_input.hook_event_name \in {"PreToolUse", "UserPromptSubmit", "PostToolUse"}
       THEN /\ hpc' = IF hook_input.hook_event_name = "UserPromptSubmit"
                      THEN "handle_user_prompt_submit"
                      ELSE "handle_pre_tool_use"
            /\ ran' = ran \cup {hpc'}
            /\ UNCHANGED stderr
       ELSE /\ stderr' = Append(stderr, [kind |-> "unknown_event",
                                         name |-> hook_input.hook_event_name])
            /\ hpc' = "return"
            /\ UNCHANGED ran
    /\ UNCHANGED <<storeVars, matchVars, args, stdin, hook_input, stdout, status, threadVars>>

Dispatch_unknown_is_error ==
    /\ hpc = "dispatch"
    /\ IF hook_input.hook_event_name \in {"PreToolUse", "UserPromptSubmit", "PostToolUse"}
       THEN /\ hpc' = IF hook_input.hook_event_name = "PreToolUse"
                      THEN "handle_pre_tool_use"
                      ELSE IF hook_input.hook_event_name = "UserPromptSubmit"
                      THEN "handle_user_prompt_submit"
                      ELSE "handle_post_tool_use"
            /\ ran' = ran \cup {hpc'}
            /\ UNCHANGED status
       ELSE /\ HookFail
            /\ UNCHANGED ran
    /\ UNCHANGED <<storeVars, matchVars, args, stdin, hook_input, stdout, stderr, threadVars>>

\* match hook_input.hook_event_name.as_str() { ... }
Dispatch ==
    /\ hpc = "dispatch"
    /\ IF hook_input.hook_event_name \in {"PreToolUse", "UserPromptSubmit", "PostToolUse"}
       THEN /\ hpc' = IF hook_input.hook_event_name = "PreToolUse"
                      THEN "handle_pre_tool_use"
                      ELSE IF hook_input.hook_event_name = "UserPromptSubmit"
                      THEN "handle_user_prompt_submit"
                      ELSE "handle_post_tool_use"
            /\ ran' = ran \cup {hpc'}
            /\ UNCHANGED stderr
       ELSE /\ stderr' = Append(stderr, [kind |-> "unknown_event",
                                         name |-> hook_input.hook_event_name])
            /\ hpc' = "return"
            /\ UNCHANGED ran
    /\ UNCHANGED <<storeVars, matchVars, args, stdin, hook_input, stdout, status, threadVars>>

\* The HookOutput handle_pre_tool_use builds from the match `found`.
Decision(found) ==
    IF args.replace_mode
    THEN HookOutput("replace", ReplaceReason(found.replacement),
                    Present(found.replacement))
    ELSE HookOutput("block", found.suggestion, Absent(<<>>))

HandlePreToolUse_prints_allow ==
    /\ hpc = "handle_pre_tool_use"
    /\ IF \/ hook_input.tool_name # Present("Bash")
          \/ ~hook_input.tool_input.some
          \/ ~hook_input.tool_input.v.command.some
       THEN /\ hpc' = "return"
            /\ UNCHANGED <<command, result, cache, stdout, status>>
       ELSE \E r \in {check_command_mappings(iter, hook_input.tool_input.v.command.v,
                                               cache)} :
               /\ command' = hook_input.tool_input.v.command.v
               /\ result' = r.ret
               /\ cache' = r.cache
               /\ IF r.ret.tag = "Err"
                  THEN /\ HookFail
                       /\ UNCHANGED stdout
                  ELSE IF r.ret.tag = "Some"
                  THEN /\ stdout' = Append(stdout, [kind |-> "json",
                                                    doc |-> to_string(Decision(r.ret))])
                       /\ hpc' = "process_exit"
                       /\ UNCHANGED status
                  ELSE /\ stdout' = Append(stdout,
                              [kind |-> "json",
                               doc |-> to_string(HookOutput("allow", <<"No mapping found">>,
                                                            Absent(<<>>)))])
                       /\ hpc' = "return"
                       /\ UNCHANGED status
    /\ UNCHANGED <<storeVars, decl, config, iter, mphase,
                   args, stdin, hook_input, stderr, ran, threadVars>>

HandlePreToolUse_any_tool ==
    /\ hpc = "handle_pre_tool_use"
    /\ IF \/ ~hook_input.tool_input.some
          \/ ~hook_input.tool_input.v.command.some
       THEN /\ hpc' = "return"
            /\ UNCHANGED <<command, result, cache, stdout, status>>
       ELSE \E r \in {check_command_mappings(iter, hook_input.tool_input.v.command.v,
                                               cache)} :
               /\ command' = hook_input.tool_input.v.command.v
               /\ result' = r.ret
               /\ cache' = r.cache
               /\ IF r.ret.tag = "Err"
                  THEN /\ HookFail
                       /\ UNCHANGED stdout
                  ELSE IF r.ret.tag = "Some"
                  THEN /\ stdout' = Append(stdout, [kind |-> "json",
                                                    doc |-> to_string(Decision(r.ret))])
                       /\ hpc' = "process_exit"
                       /\ UNCHANGED status
                  ELSE /\ hpc' = "return"
                       /\ UNCHANGED <<stdout, status>>
    /\ UNCHANGED <<storeVars, decl, config, iter, mphase,
                   args, stdin, hook_input, stderr, ran, threadVars>>

\* handle_pre_tool_use up to and including println!
HandlePreToolUse ==
    /\ hpc = "handle_pre_tool_use"
    /\ IF \/ hook_input.tool_name # Present("Bash")
          \/ ~hook_input.tool_input.some
          \/ ~hook_input.tool_input.v.command.some
       THEN /\ hpc' = "return"
            /\ UNCHANGED <<command, result, cache, stdout, status>>
       ELSE \E r \in {check_command_mappings(iter, hook_input.tool_input.v.command.v,
                                               cache)} :
               /\ command' = hook_input.tool_input.v.command.v
               /\ result' = r.ret
               /\ cache' = r.cache
               /\ IF r.ret.tag = "Err"
                  THEN /\ HookFail
                       /\ UNCHANGED stdout
                  ELSE IF r.ret.tag = "Some"
                  THEN /\ stdout' = Append(stdout, [kind |-> "json",
                                                    doc |-> to_string(Decision(r.ret))])
                       /\ hpc' = "process_exit"
                       /\ UNCHANGED status
                  ELSE /\ hpc' = "return"
                       /\ UNCHANGED <<stdout, status>>
    /\ UNCHANGED <<storeVars, decl, config, iter, mphase,
                   args, stdin, hook_input, stderr, ran, threadVars>>

ProcessExit_falls_through ==
    /\ hpc = "process_exit"
    /\ hpc' = IF Len(stdout) < 2 THEN "handle_pre_tool_use" ELSE "return"
    /\ UNCHANGED <<storeVars, matchVars, args, stdin, hook_input, stdout, stderr,
                   status, ran, threadVars>>

\* std::process::exit(0)
ProcessExit ==
    /\ hpc = "process_exit"
    /\ hpc' = "exited"
    /\ status' = "success"
    /\ UNCHANGED <<storeVars, matchVars, args, stdin, hook_input, stdout, stderr,
                   ran, threadVars>>

\* What detect_directory_references may return: no resolution, or one, with
\* or without substituted variables.
Resolutions ==
    {<<>>,
     << [alias_used |-> "docs", canonical_path |-> "/docs", variables |-> FALSE] >>,
     << [alias_used |-> "docs", canonical_path |-> "/docs", variables |-> TRUE] >>}

\* The lines handle_user_prompt_submit prints for one resolution.
ResolutionLines(resolution) ==
    << [kind |-> "directory", alias_used |-> resolution.alias_used,
        canonical_path |-> resolution.canonical_path] >>
    \o (IF resolution.variables THEN << [kind |-> "variables"] >> ELSE <<>>)

HandleUserPromptSubmit ==
    /\ hpc = "handle_user_prompt_submit"
    /\ IF ~hook_input.prompt.some
       THEN UNCHANGED stdout
       ELSE \E directory_refs \in Resolutions :
               stdout' = IF directory_refs = <<>> THEN stdout
                         ELSE stdout \o ResolutionLines(directory_refs[1])
    /\ hpc' = "return"
    /\ UNCHANGED <<storeVars, matchVars, args, stdin, hook_input, stderr, status,
                   ran, threadVars>>

HandlePostToolUse_zero_default ==
    /\ hpc = "handle_post_tool_use"
    /\ IF \/ ~hook_input.tool_name.some
          \/ ~hook_input.tool_response.some
          \/ hook_input.tool_name.v # "Bash"
       THEN UNCHANGED stdout
       ELSE LET exit_code == IF hook_input.tool_response.v.exit_code.some
                             THEN hook_input.tool_response.v.exit_code.v
                             ELSE 0
                success == exit_code = 0
            IN  IF hook_input.tool_input.some /\ hook_input.tool_input.v.command.some
                THEN stdout' = Append(stdout,
                                      [kind |-> "tracked",
                                       command |-> hook_input.tool_input.v.command.v,
                                       exit_code |-> exit_code,
                                       success |-> success])
                ELSE UNCHANGED stdout
    /\ hpc' = "return"
    /\ UNCHANGED <<storeVars, matchVars, args, stdin, hook_input, stderr, status,
                   ran, threadVars>>

\* handle_post_tool_use
HandlePostToolUse ==
    /\ hpc = "handle_post_tool_use"
    /\ IF \/ ~hook_input.tool_name.some
          \/ ~hook_input.tool_response.some
          \/ hook_input.tool_name.v # "Bash"
       THEN UNCHANGED stdout
       ELSE LET exit_code == IF hook_input.tool_response.v.exit_code.some
                             THEN hook_input.tool_response.v.exit_code.v
                             ELSE -1
                success == exit_code = 0
            IN  IF hook_input.tool_input.some /\ hook_input.tool_input.v.command.some
                THEN stdout' = Append(stdout,
                                      [kind |-> "tracked",
                                       command |-> hook_input.tool_input.v.command.v,
                                       exit_code |-> exit_code,
                                       success |-> success])
                ELSE UNCHANGED stdout
    /\ hpc' = "return"
    /\ UNCHANGED <<storeVars, matchVars, args, stdin, hook_input, stderr, status,
                   ran, threadVars>>

\* Ok(()) at the end of run_as_hook: the process ends with status 0.
HookReturn ==
    /\ hpc = "return"
    /\ hpc' = "exited"
    /\ status' = "success"
    /\ UNCHANGED <<storeVars, matchVars, args, stdin, hook_input, stdout, stderr,
                   ran, threadVars>>

\* The configuration files a hook process may find.
HookFiles ==
    {NoFile, FileOf(<<>>), FileOf(<<RuleLine>>), FileOf(<<JunkLine>>),
     FileOf(<<RuleLine, StartLine>>), FileOf(<<OversizedLine, RuleLine>>)}

\* The commands of the events.
EventCommands ==
    {Chars_npm \o <<" ">> \o Chars_install, Chars_npm_start,
     Chars_yarn \o <<" ">> \o Chars_start, <<>>}

ToolNames == {Absent(""), Present("Bash"), Present("Edit")}

ToolInputs ==
    {NoToolInput, Present([command |-> Absent(<<>>)])}
    \cup {Present([command |-> Present(c)]) : c \in EventCommands}

ToolResponses ==
    {NoToolResponse, Present([exit_code |-> Absent(0)])}
    \cup {Present([exit_code |-> Present(n)]) : n \in {0, 1}}

Prompts == {Absent(<<>>), Present(<<"see docs">>)}

EventNames ==
    {Absent(""), Present("PreToolUse"), Present("UserPromptSubmit"),
     Present("PostToolUse"), Present("SomethingElse")}

\* The documents on standard input: each event with the fields its handler
\* reads, and text that is not JSON.
EventDocs ==
    {[syntax_ok |-> ok, hook_event_name |-> n, tool_name |-> t, tool_input |-> i,
      prompt |-> p, tool_response |-> r] :
        ok \in BOOLEAN, n \in EventNames, t \in ToolNames, i \in ToolInputs,
        p \in Prompts, r \in ToolResponses}

IsEventDoc(d) ==
    /\ ~d.syntax_ok => (d.hook_event_name = Present("PreToolUse")
                        /\ d.tool_name = Present("Bash")
                        /\ d.tool_input.some /\ d.tool_input.v.command.some)
    /\ d.hook_event_name \in {Present("PreToolUse"), Absent(""), Present("SomethingElse")}
          => (~d.prompt.some /\ ~d.tool_response.some)
    /\ d.hook_event_name = Present("UserPromptSubmit")
          => (d.tool_name = Absent("") /\ ~d.tool_input.some /\ ~d.tool_response.some)
    /\ d.hook_event_name = Present("PostToolUse") => ~d.prompt.some
    /\ d.hook_event_name \in {Absent(""), Present("SomethingElse")}
          => (d.tool_name = Present("Bash")
              /\ d.tool_input.some /\ d.tool_input.v.command.some)

HookInit ==
    /\ fs \in {f \in [Paths -> HookFiles] : f[BACKUP_PATH] = NoFile}
    /\ pc = [p \in Procs |-> "idle"]
    /\ src = [p \in Procs |-> <<>>]
    /\ mret = [p \in Procs |-> NoRet]
    /\ fs0 = [p \in Procs |-> fs]
    /\ steps = [p \in Procs |-> {}]
    /\ everOk = FALSE
    /\ priorOk = [p \in Procs |-> FALSE]
    /\ q = NoQuery
    /\ MatchOff
    /\ ThreadsOff
    /\ hpc = "load_config"
    /\ args \in [config_path : {DEFAULT_CONFIG_FILE, OLD_PATH}, replace_mode : BOOLEAN]
    /\ stdin \in {d \in EventDocs : IsEventDoc(d)}
    /\ hook_input = NoInput
    /\ stdout = <<>>
    /\ stderr = <<>>
    /\ status = "none"
    /\ ran = {}

HookNext ==
    \/ HookLoadConfig
    \/ HookReadInput
    \/ Dispatch
    \/ HandlePreToolUse
    \/ ProcessExit
    \/ HandleUserPromptSubmit
    \/ HandlePostToolUse
    \/ HookReturn

SpecHook == HookInit /\ [][HookNext]_vars

\* The process is single-threaded and runs each statement it reaches: every
\* step is taken when it is enabled.  handle_pre_tool_use is enabled exactly
\* while the process stands at its entry, which is how its fairness is stated.
SpecHookFair ==
    /\ SpecHook
    /\ WF_vars(HookLoadConfig)
    /\ WF_vars(HookReadInput)
    /\ WF_vars(Dispatch)
    /\ []<>(hpc # "handle_pre_tool_use")
    /\ WF_vars(ProcessExit)
    /\ WF_vars(HandleUserPromptSubmit)
    /\ WF_vars(HandlePostToolUse)
    /\ WF_vars(HookReturn)

(***************************************************************************)
(* Claims about the hook process                                           *)
(***************************************************************************)
\* s contains sub as a run of consecutive elements.
IsInfix(sub, s) ==
    \E i \in 0..(Len(s) - Len(sub)) : SubSeq(s, i + 1, i + Len(sub)) = sub

\* The event read is a PreToolUse event of the Bash tool that carries a command.
IsInterception ==
    /\ hook_input.hook_event_name = "PreToolUse"
    /\ hook_input.tool_name = Present("Bash")
    /\ hook_input.tool_input.some
    /\ hook_input.tool_input.v.command.some

\* What check_command_mappings returns for the event's command.
EventCheck ==
    check_command_mappings(iter, hook_input.tool_input.v.command.v, {}).ret

\* The event read is an interception event whose command matches a rule.
MatchedEvent == IsInterception /\ EventCheck.tag = "Some"

\* The decision documents printed so far.
DecisionDocs == SelectSeq(stdout, LAMBDA e : e.kind = "json")

\* C12: for a PreToolUse event of the Bash tool whose command matches a rule,
\* the document printed has decision "replace" and a replacement_command
\* equal to the command check_command_mappings rewrote when replace mode is
\* on, and decision "block", a reason containing the rewritten command and no
\* replacement_command field when replace mode is off.
C12_DecisionDocument ==
    (MatchedEvent /\ hpc \in {"process_exit", "exited"})
    => /\ Len(stdout) = 1
       /\ stdout[1].kind = "json"
       /\ LET doc == stdout[1].doc IN
          IF args.replace_mode
          THEN /\ doc.decision = "replace"
               /\ "replacement_command" \in DOMAIN doc
               /\ doc.replacement_command = EventCheck.replacement
          ELSE /\ doc.decision = "block"
               /\ IsInfix(EventCheck.replacement, doc.reason)
               /\ "replacement_command" \notin DOMAIN doc

C12_Witness ==
    /\ hpc = "exited"
    /\ MatchedEvent
    /\ ~args.replace_mode
    /\ Cardinality(config.commands) = 2
    /\ Len(stdout) = 1
    /\ stdout[1].doc.decision = "block"
    /\ EventCheck.replacement = Chars_bun_dev

\* At most one decision document is ever printed, and an invocation that has
\* ended after a matching event has printed exactly that and succeeded.
C13_OneDocument ==
    /\ Len(DecisionDocs) <= 1
    /\ (MatchedEvent /\ hpc \in {"process_exit", "exited"})
       => (Len(DecisionDocs) = 1 /\ Len(stdout) = 1)
    /\ (MatchedEvent /\ hpc = "exited") => status = "success"

\* Nothing is printed after a decision document, and the step that follows
\* its printing ends the process with success.
C13_ExitStep ==
    /\ DecisionDocs # <<>> => stdout' = stdout
    /\ hpc = "process_exit" => (hpc' = "exited" /\ status' = "success")

\* C13: for every PreToolUse event that matches a rule the invocation prints
\* exactly one decision document, prints nothing after it and ends at once
\* with success; no invocation prints two decision documents.
C13_ExactlyOneThenExit ==
    /\ []C13_OneDocument
    /\ [][C13_ExitStep]_vars
    /\ (MatchedEvent /\ hpc = "handle_pre_tool_use")
          ~> (hpc = "exited" /\ status = "success" /\ Len(DecisionDocs) = 1)

C13_Witness ==
    /\ hpc = "exited"
    /\ MatchedEvent
    /\ args.replace_mode
    /\ status = "success"
    /\ Len(DecisionDocs) = 1
    /\ stdout[1].doc.replacement_command = Chars_bun \o <<" ">> \o Chars_install

\* The warnings on stderr that name the event tag read.
UnknownEventWarnings ==
    SelectSeq(stderr, LAMBDA e : e.kind = "unknown_event"
                                  /\ e.name = hook_input.hook_event_name)

\* The configuration loaded, the document parsed, and its tag is none of the
\* three that run_as_hook knows.
UnknownEvent ==
    /\ hpc \in {"return", "exited"}
    /\ hook_input # NoInput
    /\ hook_input.hook_event_name \notin {"PreToolUse", "UserPromptSubmit", "PostToolUse"}

\* C14: an event whose tag is none of the three recognised ones, read after
\* the configuration loaded and the document parsed, prints nothing on
\* stdout, runs no handler, prints one warning that names the tag, and the
\* process ends with success, never with an error.
C14_UnknownEventIgnored ==
    UnknownEvent
    => /\ stdout = <<>>
       /\ ran = {}
       /\ Len(UnknownEventWarnings) = 1
       /\ Len(SelectSeq(stderr, LAMBDA e : e.kind = "unknown_event")) = 1
       /\ status # "failure"
       /\ hpc = "exited" => status = "success"

C14_Witness ==
    /\ hpc = "exited"
    /\ UnknownEvent
    /\ hook_input.hook_event_name = "SomethingElse"
    /\ config.commands # {}
    /\ status = "success"
    /\ stderr = << [kind |-> "unknown_event", name |-> "SomethingElse"] >>

\* The document on stdin is not JSON, or lacks the event name.
Malformed == ~stdin.syntax_ok \/ ~stdin.hook_event_name.some

\* C17: a malformed event document is always fatal: the process ends with an
\* error status, no handler runs and nothing is printed on stdout, whatever
\* the configuration holds.
C17_MalformedIsFatal ==
    Malformed
    => /\ ran = {}
       /\ stdout = <<>>
       /\ status # "success"
       /\ hpc \notin {"dispatch", "return", "process_exit", "handle_pre_tool_use",
                      "handle_user_prompt_submit", "handle_post_tool_use"}
       /\ hpc = "exited" => status = "failure"

C17_Witness ==
    /\ Malformed
    /\ ~stdin.syntax_ok
    /\ hpc = "exited"
    /\ status = "failure"
    /\ Cardinality(config.commands) = 2
    /\ stdin.hook_event_name = Present("PreToolUse")

\* Only the legacy-named configuration file exists, and it parses.
OnlyLegacy ==
    /\ ~path_exists(NEW_PATH)
    /\ path_exists(OLD_PATH)
    /\ toml_from_str(fs[OLD_PATH].data).tag = "Ok"

LegacyConfig == toml_from_str(fs[OLD_PATH].data).val

\* C16: run_as_hook, started without a --config argument, finds its
\* configuration by the discovery over the two names: when only the legacy
\* file exists, a PreToolUse event is checked against the legacy file's
\* command mappings, not against an empty configuration.
C16_LegacyFileUsed ==
    (/\ OnlyLegacy
     /\ args.config_path = DEFAULT_CONFIG_FILE
     /\ IsInterception
     /\ hpc \in {"return", "process_exit", "exited"})
    => /\ config = LegacyConfig
       /\ \A o \in IterationOrders(LegacyConfig.commands) :
             check_command_mappings(o, hook_input.tool_input.v.command.v, {}).ret.tag = "Some"
             => Len(DecisionDocs) = 1

\* What does hold: the legacy file is used when its name is the --config
\* argument.
C16_LegacyFileByArgument ==
    (/\ OnlyLegacy
     /\ args.config_path = OLD_PATH
     /\ IsInterception
     /\ hpc \in {"return", "process_exit", "exited"})
    => config = LegacyConfig

(***************************************************************************)
(* get_cached_regex called from several threads, one statement per step    *)
(***************************************************************************)
\* The regex texts the threads ask for; the last one does not compile.
CachedTexts ==
    {format_regex_pattern(Chars_npm), format_regex_pattern(Chars_yarn),
     format_regex_pattern(OversizedRule[1])}

threadFrame == <<storeVars, decl, config, command, iter, result, mphase, hookVars>>

\* A thread enters get_cached_regex(pattern).
CallGetCachedRegex(t) ==
    /\ tpc[t] = "idle"
    /\ Len(calls[t]) < MaxCalls
    /\ \E text \in CachedTexts :
          /\ tpat' = [tpat EXCEPT ![t] = text]
          /\ calls' = [calls EXCEPT ![t] = Append(@, text)]
    /\ tpc' = [tpc EXCEPT ![t] = "lock"]
    /\ UNCHANGED <<treg, tret, lock, compiled, cache, threadFrame>>

Lock_unguarded(t) ==
    /\ tpc[t] = "lock"
    /\ lock' = t
    /\ tpc' = [tpc EXCEPT ![t] = "lookup"]
    /\ UNCHANGED <<tpat, treg, tret, calls, compiled, cache, threadFrame>>

\* let mut cache = REGEX_CACHE.lock(): waits until no thread holds the mutex.
Lock(t) ==
    /\ tpc[t] = "lock"
    /\ lock = 0
    /\ lock' = t
    /\ tpc' = [tpc EXCEPT ![t] = "lookup"]
    /\ UNCHANGED <<tpat, treg, tret, calls, compiled, cache, threadFrame>>

\* The guard is dropped when the function returns.
Unlock(t) == lock' = IF lock = t THEN 0 ELSE lock

\* if let Some(regex) = cache.get(pattern) { return Ok(regex.clone()); }
Lookup(t) ==
    /\ tpc[t] = "lookup"
    /\ IF \E e \in cache : e[1] = tpat[t]
       THEN /\ tret' = [tret EXCEPT ![t] = (CHOOSE e \in cache : e[1] = tpat[t])[2]]
            /\ Unlock(t)
            /\ tpc' = [tpc EXCEPT ![t] = "idle"]
       ELSE /\ tpc' = [tpc EXCEPT ![t] = "compile"]
            /\ UNCHANGED <<tret, lock>>
    /\ UNCHANGED <<tpat, treg, calls, compiled, cache, threadFrame>>

\* let regex = Regex::new(pattern)?;
Compile(t) ==
    /\ tpc[t] = "compile"
    /\ \E regex \in {Regex_new(tpat[t])} :
          /\ compiled' = Append(compiled, <<tpat[t], regex>>)
          /\ IF regex.ok
             THEN /\ treg' = [treg EXCEPT ![t] = regex]
                  /\ tpc' = [tpc EXCEPT ![t] = "insert"]
                  /\ UNCHANGED <<tret, lock>>
             ELSE /\ tret' = [tret EXCEPT ![t] = regex]
                  /\ Unlock(t)
                  /\ tpc' = [tpc EXCEPT ![t] = "idle"]
                  /\ UNCHANGED treg
    /\ UNCHANGED <<tpat, calls, cache, threadFrame>>

\* cache.insert(pattern.to_string(), regex.clone());
Insert(t) ==
    /\ tpc[t] = "insert"
    /\ cache' = {e \in cache : e[1] # tpat[t]} \cup {<<tpat[t], treg[t]>>}
    /\ tpc' = [tpc EXCEPT ![t] = "return"]
    /\ UNCHANGED <<tpat, treg, tret, lock, calls, compiled, threadFrame>>

\* Ok(regex)
ReturnRegex(t) ==
    /\ tpc[t] = "return"
    /\ tret' = [tret EXCEPT ![t] = treg[t]]
    /\ Unlock(t)
    /\ tpc' = [tpc EXCEPT ![t] = "idle"]
    /\ UNCHANGED <<tpat, treg, calls, compiled, cache, threadFrame>>

CacheInit ==
    /\ StoreOff
    /\ MatchOff
    /\ HookOff
    /\ tpc = [t \in Threads |-> "idle"]
    /\ tpat = [t \in Threads |-> <<>>]
    /\ treg = [t \in Threads |-> NoRegex]
    /\ tret = [t \in Threads |-> NoRegex]
    /\ lock = 0
    /\ calls = [t \in Threads |-> <<>>]
    /\ compiled = <<>>

CacheNext ==
    \E t \in Threads :
        \/ CallGetCachedRegex(t)
        \/ Lock(t)
        \/ Lookup(t)
        \/ Compile(t)
        \/ Insert(t)
        \/ ReturnRegex(t)

SpecCache == CacheInit /\ [][CacheNext]_vars

(***************************************************************************)
(* Claims about the regex cache                                            *)
(***************************************************************************)
\* The regexes Regex::new has returned for the text, in order.
CompiledFor(text) == SelectSeq(compiled, LAMBDA c : c[1] = text /\ c[2].ok)

InCriticalSection(t) == tpc[t] \in {"lookup", "compile", "insert", "return"}

\* The thread has returned from its last call with Ok(regex).
Returned(t) == tpc[t] = "idle" /\ calls[t] # <<>> /\ tret[t].ok

\* C15: under every interleaving of get_cached_regex calls from several
\* threads each pattern text is compiled at most once, lookup, compilation
\* and insertion being one critical section, and every call for a text
\* returns the regex first compiled for it.
C15_CompiledOnce ==
    /\ \A text \in CachedTexts : Len(CompiledFor(text)) <= 1
    /\ \A t, u \in Threads : (InCriticalSection(t) /\ InCriticalSection(u)) => t = u
    /\ \A t \in Threads : InCriticalSection(t) => lock = t
    /\ \A t \in Threads :
          Returned(t) => /\ CompiledFor(tpat[t]) # <<>>
                         /\ tret[t] = CompiledFor(tpat[t])[1][2]
                         /\ <<tpat[t], tret[t]>> \in cache

C15_Witness ==
    /\ Returned(1)
    /\ Returned(2)
    /\ tpat[1] = tpat[2]
    /\ Len(calls[1]) = 2
    /\ calls[1][1] = calls[1][2]
    /\ Len(CompiledFor(tpat[1])) = 1
    /\ lock = 0

(***************************************************************************)
(* Further claims about the configuration store                            *)
(***************************************************************************)
\* C21: when the removal of the legacy file fails after a successful
\* validation, migrate_config() returns MigrationFailed and leaves the backup
\* file and the validated current file in place with the original content;
\* in that state find_config_file() returns the current path and
\* needs_migration() returns None.
C21_DeleteFailureKeepsCopies ==
    \A p \in Procs :
        (pc[p] = "done" /\ steps[p] = {"backup", "copy", "validate"})
        => /\ mret[p].tag = "Err"
           /\ mret[p].kind = "MigrationFailed"
           /\ OrigLegacy(p).exists
           /\ fs[BACKUP_PATH] = OrigLegacy(p)
           /\ fs[NEW_PATH] = OrigLegacy(p)
           /\ load_config_from_path(NEW_PATH, TRUE).tag = "Ok"
           /\ find_config_file = Ok(NEW_PATH)
           /\ needs_migration = NoRet

C21_Witness ==
    /\ pc[1] = "done"
    /\ steps[1] = {"backup", "copy", "validate"}
    /\ mret[1].kind = "MigrationFailed"
    /\ path_exists(OLD_PATH)
    /\ OrigLegacy(1).data # <<>>
    /\ q.op = "none"

(***************************************************************************)
(* Further claims about the hook process                                   *)
(***************************************************************************)
\* The event read is a PreToolUse event that handle_pre_tool_use ignores: the
\* tool name is absent or not "Bash", or there is no command.
IgnoredInterception ==
    /\ hook_input.hook_event_name = "PreToolUse"
    /\ \/ hook_input.tool_name # Present("Bash")
       \/ ~hook_input.tool_input.some
       \/ ~hook_input.tool_input.v.command.some

\* C22: a PreToolUse event whose tool name is absent or is not "Bash", or
\* whose command is absent, is a no-op: check_command_mappings is not called,
\* nothing is printed and the process ends normally, even when the
\* configuration holds rules that would match.
C22_IgnoredInterceptionIsNoOp ==
    IgnoredInterception
    => /\ result = NotRun
       /\ cache = {}
       /\ stdout = <<>>
       /\ status # "failure"
       /\ hpc \in {"dispatch", "handle_pre_tool_use", "return", "exited"}
       /\ hpc = "exited" => status = "success"

C22_Witness ==
    /\ IgnoredInterception
    /\ hpc = "exited"
    /\ status = "success"
    /\ hook_input.tool_name = Present("Edit")
    /\ hook_input.tool_input.some
    /\ hook_input.tool_input.v.command = Present(Chars_npm \o <<" ">> \o Chars_install)
    /\ config.commands # {}
    /\ check_command_mappings(iter, hook_input.tool_input.v.command.v, {}).ret.tag = "Some"

\* Every pattern of the loaded configuration compiles, and none occurs in the
\* event's command between word boundaries.
NoRuleMatches ==
    \A r \in config.commands :
        /\ ~Uncompilable(r)
        /\ ~\E i \in 1..Len(hook_input.tool_input.v.command.v) :
               WordBoundedAt(r[1], hook_input.tool_input.v.command.v, i)

\* C23: when no rule matches the command of a PreToolUse event (the empty
\* command and the empty configuration included, every pattern compiling),
\* check_command_mappings returns None and not an error, and the process
\* prints nothing and ends normally.
C23_NoMatchIsSilent ==
    (IsInterception /\ NoRuleMatches /\ hpc \in {"return", "process_exit", "exited"})
    => /\ result = None
       /\ hook_input.tool_input.v.command.v = command
       /\ stdout = <<>>
       /\ hpc # "process_exit"
       /\ status # "failure"
       /\ hpc = "exited" => status = "success"

C23_Witness ==
    /\ IsInterception
    /\ NoRuleMatches
    /\ hpc = "exited"
    /\ status = "success"
    /\ Cardinality(config.commands) = 2
    /\ command = Chars_yarn \o <<" ">> \o Chars_start
    /\ result = None

\* The PostToolUse event read has been handled.
TrackingHandled ==
    /\ hook_input.hook_event_name = "PostToolUse"
    /\ hpc \in {"return", "exited"}

\* The event names the Bash tool and carries an execution result.
TrackedEvent ==
    /\ hook_input.tool_name = Present("Bash")
    /\ hook_input.tool_response.some

EventHasCommand ==
    /\ hook_input.tool_input.some
    /\ hook_input.tool_input.v.command.some

\* The one line printed carries the event's command, the exit code (a
\* non-zero sentinel when absent) and success, true exactly for exit code 0.
TrackedLine ==
    /\ Len(stdout) = 1
    /\ stdout[1].kind = "tracked"
    /\ stdout[1].command = hook_input.tool_input.v.command.v
    /\ stdout[1].success = (stdout[1].exit_code = 0)
    /\ IF hook_input.tool_response.v.exit_code.some
       THEN stdout[1].exit_code = hook_input.tool_response.v.exit_code.v
       ELSE stdout[1].exit_code # 0 /\ ~stdout[1].success

\* C24 as claimed: every PostToolUse event that names the Bash tool and
\* carries an execution result prints exactly one line with the command, the
\* exit code and the success flag; any other PostToolUse event prints nothing.
C24_EveryTrackedEventPrints ==
    TrackingHandled
    => IF TrackedEvent
       THEN Len(stdout) = 1 /\ (EventHasCommand => TrackedLine)
       ELSE stdout = <<>>

\* C24 as amended: every PostToolUse event that names the Bash tool, carries
\* an execution result and carries a command prints exactly one line with the
\* command, the exit code (or the sentinel) and the success flag; any other
\* PostToolUse event, one without a command included, prints nothing.
C24_TrackedEventWithCommandPrints ==
    TrackingHandled
    => IF TrackedEvent /\ EventHasCommand
       THEN TrackedLine
       ELSE stdout = <<>>

C24_Witness ==
    /\ TrackingHandled
    /\ hpc = "exited"
    /\ TrackedEvent
    /\ EventHasCommand
    /\ ~hook_input.tool_response.v.exit_code.some
    /\ Len(stdout) = 1
    /\ stdout[1].exit_code = -1
    /\ ~stdout[1].success

\* The handler run_as_hook's match selects for an event name.
HandlerOf(name) ==
    IF name = "PreToolUse" THEN "handle_pre_tool_use"
    ELSE IF name = "UserPromptSubmit" THEN "handle_user_prompt_submit"
    ELSE "handle_post_tool_use"

RecognisedEvent ==
    hook_input.hook_event_name \in {"PreToolUse", "UserPromptSubmit", "PostToolUse"}

\* How far the process has come.
Progress(at) ==
    IF at = "load_config" THEN 0
    ELSE IF at = "read_stdin" THEN 1
    ELSE IF at = "dispatch" THEN 2
    ELSE IF at \in {"handle_pre_tool_use", "handle_user_prompt_submit",
                    "handle_post_tool_use"} THEN 3
    ELSE IF at \in {"process_exit", "return"} THEN 4
    ELSE 5

\* C25 as claimed: in every invocation that has ended exactly one of the
\* three handlers has run.
C25_ExactlyOneHandler ==
    hpc = "exited" => Cardinality(ran) = 1

\* At most one handler has run, the one the event name selects, and it has
\* run once the match on a recognised name is passed.
C25_HandlerByTag ==
    /\ Cardinality(ran) <= 1
    /\ ran # {} => (RecognisedEvent /\ ran = {HandlerOf(hook_input.hook_event_name)})
    /\ (RecognisedEvent /\ Progress(hpc) >= 3 /\ status # "failure")
       => ran = {HandlerOf(hook_input.hook_event_name)}
    /\ (~RecognisedEvent \/ Progress(hpc) < 3) => ran = {}

\* Every step moves the process forward: the configuration is read once and a
\* handler is passed once; the configuration changes only in the read, the
\* check result only in handle_pre_tool_use, stdout only in a handler.
C25_ForwardStep ==
    /\ Progress(hpc') > Progress(hpc)
    /\ config' # config => hpc = "load_config"
    /\ stdin' = stdin
    /\ (result' # result \/ cache' # cache) => hpc = "handle_pre_tool_use"
    /\ stdout' # stdout => Progress(hpc) = 3
    /\ ran' # ran => hpc = "dispatch"

\* C25 as amended: in one invocation at most one of the three handlers runs,
\* selected by the event name alone, and exactly one runs when the
\* configuration loaded, the document parsed and the name is one of the
\* three; the invocation reads the configuration at most once and makes at
\* most one check, resolution or tracking pass before it ends.
C25_AtMostOneHandler == []C25_HandlerByTag /\ [][C25_ForwardStep]_vars

C25_Witness ==
    /\ hpc = "exited"
    /\ status = "success"
    /\ ran = {"handle_post_tool_use"}
    /\ Len(stdout) = 1
    /\ config.commands # {}

(***************************************************************************)
(* Further claims about the matcher.                                       *)
(***************************************************************************)

Chars_npm_check == Chars_npm \o <<"-", "c", "h", "e", "c", "k">>

ReplacementAltered == ~IsInfix(RuleR, result.replacement)

\* C27: check_command_mappings inserts the replacement character for
\* character: when the single rule (P, R) matches, the command returned has
\* exactly R in the place of each bounded occurrence of P, whatever "$"
\* followed by digits, letters or braces R holds.
C27_ReplacementVerbatim ==
    (mphase = "checked" /\ OneRule /\ RuleP # <<>> /\ result.tag = "Some")
    => /\ ~ReplacementAltered
       /\ result.replacement = Rewritten(RuleP, RuleR, command, 1)

\* The text C holds a word-bounded occurrence of P.
HoldsBounded(P, C) == \E i \in 1..(Len(C) + 1) : WordBoundedAt(P, C, i)

\* C28: for a single rule (P, R) whose R holds no word-bounded occurrence of
\* P, the command check_command_mappings returns holds none either, and
\* checking the returned command again finds no match.
C28_RewrittenNotMatched ==
    (mphase = "checked" /\ OneRule /\ result.tag = "Some"
        /\ ~HoldsBounded(RuleP, RuleR))
    => /\ ~HoldsBounded(RuleP, result.replacement)
       /\ check_command_mappings(decl, result.replacement, {}).ret.tag = "None"

(***************************************************************************)
(* Claims relating migrate_config() and load_config_auto()                 *)
(***************************************************************************)
\* What load_config_auto() yields in the directory dir when the discovered
\* file can be read.
LoadAutoIn(dir) ==
    IF ~dir[NEW_PATH].exists /\ ~dir[OLD_PATH].exists THEN Ok(EmptyConfig)
    ELSE toml_from_str(dir[Discovered(dir)].data)

\* C29: after a migrate_config() run started with the legacy file present
\* and the current file absent, however the run ended, load_config_auto()
\* yields the Configuration or the parse error it yielded before the run.
C29_MigratePreservesLoadAuto ==
    \A p \in Procs :
        (pc[p] = "done" /\ OrigLegacy(p).exists /\ ~fs0[p][NEW_PATH].exists)
        => /\ load_config_auto(TRUE).res = LoadAutoIn(fs)
           /\ LoadAutoIn(fs) = LoadAutoIn(fs0[p])

(***************************************************************************)
(* Two processes run `--migrate-config` in one directory at the same time. *)
(* migrate_config() takes no lock: the steps of the two calls interleave.  *)
(***************************************************************************)
\* The directory holds a valid legacy file and no current file.
RaceInit ==
    /\ fs \in [Paths -> Files]
    /\ fs[OLD_PATH].exists
    /\ toml_from_str(fs[OLD_PATH].data).tag = "Ok"
    /\ ~fs[NEW_PATH].exists
    /\ pc = [p \in Procs |-> "idle"]
    /\ src = [p \in Procs |-> <<>>]
    /\ mret = [p \in Procs |-> NoRet]
    /\ fs0 = [p \in Procs |-> fs]
    /\ steps = [p \in Procs |-> {}]
    /\ everOk = FALSE
    /\ priorOk = [p \in Procs |-> FALSE]
    /\ q = NoQuery
    /\ MatchOff /\ HookOff /\ ThreadsOff

\* Each process calls migrate_config() once.
RaceCall(p) ==
    /\ pc[p] = "idle"
    /\ MigrateCall(p)

RaceNext ==
    \E p \in Procs :
        \/ RaceCall(p)
        \/ CheckOld(p)
        \/ CheckNew(p)
        \/ BackupOpen(p)
        \/ BackupWrite(p)
        \/ NewOpen(p)
        \/ NewWrite(p)
        \/ Validate(p)
        \/ Rollback(p)
        \/ RemoveOld(p)

SpecRace == RaceInit /\ [][RaceNext]_vars

\* Both calls were made (or are still to be made) in a directory with the
\* legacy file present and the current file absent.
BothFromLegacyOnly ==
    \A p \in Procs : fs0[p][OLD_PATH].exists /\ ~fs0[p][NEW_PATH].exists

\* C30: under every interleaving of two concurrent migrate_config() calls
\* started with a valid legacy file and no current file, the legacy file or
\* the current file holds the original content in full in every state, at
\* most one of the two calls returns success, and when both have returned
\* the current file holds the original content.
C30_RaceKeepsContent ==
    BothFromLegacyOnly
    => /\ fs[OLD_PATH] = OrigLegacy(1) \/ fs[NEW_PATH] = OrigLegacy(1)
       /\ ~(mret[1].tag = "Ok" /\ mret[2].tag = "Ok")
       /\ (pc[1] = "done" /\ pc[2] = "done") => fs[NEW_PATH] = OrigLegacy(1)

\* The call of process p failed while or after it wrote the current file.
FailedAtCurrent(p) ==
    /\ mret[p].tag = "Err"
    /\ mret[p].val \in {"Failed to copy to new location",
                        "New configuration validation failed"}

\* C30 as amended: the original content is never lost altogether, the
\* legacy file, the current file or the backup file holding it in full in
\* every state; at most one of the two calls returns success, and only
\* with the legacy file gone; when both have returned, one of them with
\* success, the current file holds the original content unless the other
\* call failed in its own copy or validation.
C30_RaceKeepsBackup ==
    BothFromLegacyOnly
    => /\ \/ fs[OLD_PATH] = OrigLegacy(1)
          \/ fs[NEW_PATH] = OrigLegacy(1)
          \/ fs[BACKUP_PATH] = OrigLegacy(1)
       /\ ~(mret[1].tag = "Ok" /\ mret[2].tag = "Ok")
       /\ (\E p \in Procs : mret[p].tag = "Ok") => ~path_exists(OLD_PATH)
       /\ (/\ pc[1] = "done" /\ pc[2] = "done"
           /\ \E p \in Procs : mret[p].tag = "Ok"
           /\ \A p \in Procs : ~FailedAtCurrent(p))
          => fs[NEW_PATH] = OrigLegacy(1)

\* One call has succeeded and deleted the legacy file while the other, past
\* its own checks, has truncated the current file and not yet rewritten it.
C30_Witness ==
    /\ BothFromLegacyOnly
    /\ OrigLegacy(1).data # <<>>
    /\ \E p \in Procs :
          /\ mret[p].tag = "Ok"
          /\ \E o \in Procs : o # p /\ pc[o] = "copy_write"
    /\ ~path_exists(OLD_PATH)
    /\ fs[NEW_PATH] = FileOf(<<>>)
    /\ fs[BACKUP_PATH] = OrigLegacy(1)

====
